---- MODULE Spec2Model ----
(***************************************************************************)
(* Task orchestration and verification gate of the agent backend:          *)
(*   apps/backend/src/agents/orchestrator.py     OrchestratorAgent.run     *)
(*   apps/backend/src/agents/registry.py         AgentRegistry             *)
(*   apps/backend/src/agents/subagent_manager.py SubagentManager           *)
(*                                                                         *)
(* An Optional[X] field is a sequence of length 0 (None) or 1 (the value). *)
(* A text is the sequence of its characters.                               *)
(***************************************************************************)
EXTENDS Naturals, Sequences, FiniteSets, TLC

VARIABLES
    pc,               \* position of run() in its body
    description,      \* run(task_description)
    agents,           \* AgentRegistry._agents: name -> the agent registered under it
    verifier_id,      \* self.verifier.get_verifier_id()
    task,             \* the TaskState created by run()
    current_task,     \* OrchestratorState.current_task (None or the task)
    completed_tasks,  \* OrchestratorState.completed_tasks
    failed_tasks,     \* OrchestratorState.failed_tasks
    escalated_tasks,  \* OrchestratorState.escalated_tasks
    request,          \* the VerificationRequest in flight to the verifier
    run_result,       \* the dictionary run() returns
    workerCalls,      \* history: calls of agent.execute made by _execute_task
    verifyCalls,      \* history: calls of verifier.verify
    executeCalls,     \* history: calls of _execute_task
    trace,            \* history: what each worker / verifier call did
    sub_pc,           \* position of execute_parallel() in its body
    configs,          \* execute_parallel(configs)
    execution_plan,   \* the waves _resolve_dependencies returned
    wave,             \* index of the wave being executed
    co,               \* the _execute_subagent coroutines of the wave, in wave order
    all_results,      \* execute_parallel's all_results
    active_subagents,  \* SubagentManager._active_subagents: subtask_id -> tracking
    cancel_log,       \* history: the calls of cancel_subagent, with what each found and returned
    ctx,              \* the context objects of a batch: who holds which, and their contents
    ag                \* a BaseAgent and the call of iterate_until_passing made on it

vars == <<pc, description, agents, verifier_id, task, current_task,
          completed_tasks, failed_tasks, escalated_tasks, request, run_result,
          workerCalls, verifyCalls, executeCalls, trace,
          sub_pc, configs, execution_plan, wave, co, all_results, active_subagents,
          cancel_log, ctx, ag>>

-----------------------------------------------------------------------------
(* TaskStatus *)

PENDING == "pending"
IN_PROGRESS == "in_progress"
AWAITING_VERIFICATION == "awaiting_verification"
VERIFICATION_IN_PROGRESS == "verification_in_progress"
VERIFICATION_PASSED == "verification_passed"
VERIFICATION_FAILED == "verification_failed"
COMPLETED == "completed"
FAILED == "failed"
BLOCKED == "blocked"
ESCALATED_TO_HUMAN == "escalated_to_human"

TaskStatus ==
    {PENDING, IN_PROGRESS, AWAITING_VERIFICATION, VERIFICATION_IN_PROGRESS,
     VERIFICATION_PASSED, VERIFICATION_FAILED, COMPLETED, FAILED, BLOCKED,
     ESCALATED_TO_HUMAN}

\* TaskState.max_attempts
DefaultMaxAttempts == 3

TaskId == "task_1"

None == <<>>
Some(x) == <<x>>
Last(s) == s[Len(s)]

-----------------------------------------------------------------------------
(* Registry *)

AgentId(name) == <<"agent", name>>

DefaultAgents == {"frontend", "backend", "database", "devops", "general"}

\* AgentRegistry._initialize_default_agents: every default agent is registered
\* under its own name
InitialAgents == [n \in DefaultAgents |-> [name |-> n, agent_id |-> AgentId(n)]]

_category_mapping ==
    [c \in DefaultAgents |-> c]

\* AgentRegistry.get_agent: the agent or None
get_agent(name) ==
    IF name \in DOMAIN agents THEN Some(agents[name]) ELSE None

\* a lookup by name alone, without the mapping's default
get_agent_by_category_name(category) ==
    get_agent(category)

get_agent_for_category(category) ==
    get_agent(IF category \in DOMAIN _category_mapping
              THEN _category_mapping[category] ELSE "general")

-----------------------------------------------------------------------------
(* Classification *)

CategoryOrder == <<"frontend", "backend", "database", "devops">>

keywords ==
    [frontend |->
        { <<"f", "r", "o", "n", "t", "e", "n", "d">>,
          <<"c", "o", "m", "p", "o", "n", "e", "n", "t">>,
          <<"u", "i">>,
          <<"p", "a", "g", "e">>,
          <<"n", "e", "x", "t">>,
          <<"r", "e", "a", "c", "t">>,
          <<"c", "s", "s">>,
          <<"t", "a", "i", "l", "w", "i", "n", "d">> },
     backend |->
        { <<"b", "a", "c", "k", "e", "n", "d">>,
          <<"a", "p", "i">>,
          <<"a", "g", "e", "n", "t">>,
          <<"l", "a", "n", "g", "g", "r", "a", "p", "h">>,
          <<"p", "y", "t", "h", "o", "n">>,
          <<"f", "a", "s", "t", "a", "p", "i">> },
     database |->
        { <<"d", "a", "t", "a", "b", "a", "s", "e">>,
          <<"m", "i", "g", "r", "a", "t", "i", "o", "n">>,
          <<"s", "u", "p", "a", "b", "a", "s", "e">>,
          <<"s", "q", "l">>,
          <<"q", "u", "e", "r", "y">>,
          <<"s", "c", "h", "e", "m", "a">> },
     devops |->
        { <<"d", "e", "p", "l", "o", "y">>,
          <<"d", "o", "c", "k", "e", "r">>,
          <<"c", "i">>,
          <<"c", "d">>,
          <<"d", "e", "v", "o", "p", "s">>,
          <<"i", "n", "f", "r", "a", "s", "t", "r", "u", "c", "t", "u", "r", "e">> }]

UpperCase == <<"A", "B", "C", "D", "E", "F", "G", "H", "I", "J", "K", "L", "M",
               "N", "O", "P", "Q", "R", "S", "T", "U", "V", "W", "X", "Y", "Z">>
LowerCase == <<"a", "b", "c", "d", "e", "f", "g", "h", "i", "j", "k", "l", "m",
               "n", "o", "p", "q", "r", "s", "t", "u", "v", "w", "x", "y", "z">>

\* str.lower() on the letters A to Z
lower(text) ==
    [i \in 1..Len(text) |->
        IF \E k \in 1..26 : UpperCase[k] = text[i]
        THEN LowerCase[CHOOSE k \in 1..26 : UpperCase[k] = text[i]]
        ELSE text[i]]

\* word in text
In(word, text) ==
    \E k \in 0..(Len(text) - Len(word)) : SubSeq(text, k + 1, k + Len(word)) = word

\* a classification that compares the description as written
CategorizeAsWritten(description_text) ==
    LET hits == {i \in 1..Len(CategoryOrder) :
                    \E word \in keywords[CategoryOrder[i]] : In(word, description_text)}
    IN  IF hits = {} THEN "general"
        ELSE CategoryOrder[CHOOSE i \in hits : \A j \in hits : i <= j]

\* first category, in the dictionary's order, one of whose words is in the
\* lower-cased description
_categorize_task(description_text) ==
    LET description_lower == lower(description_text)
        hits == {i \in 1..Len(CategoryOrder) :
                    \E word \in keywords[CategoryOrder[i]] : In(word, description_lower)}
    IN  IF hits = {} THEN "general"
        ELSE CategoryOrder[CHOOSE i \in hits : \A j \in hits : i <= j]

\* the descriptions run() is called with: "Do it", "React API", "SQL"
Descriptions ==
    { <<"D", "o", " ", "i", "t">>,
      <<"R", "e", "a", "c", "t", " ", "A", "P", "I">>,
      <<"S", "Q", "L">> }

-----------------------------------------------------------------------------
(* Worker and verifier: external collaborators *)

\* the reports a worker's execute can return under "task_output"
WorkerReports ==
    { [outputs |-> <<>>, completion_criteria |-> <<>>],
      [outputs |-> <<[type |-> "file", path |-> "a.py"]>>, completion_criteria |-> <<>>],
      [outputs |-> <<[type |-> "endpoint", path |-> "/b"]>>,
       completion_criteria |-> <<[type |-> "tests_pass", target |-> "tests/"]>>] }

\* what agent.execute does: raises, returns a result without "task_output",
\* returns a "task_output" that TaskOutput(**...) refuses, or returns a report
WorkerOutcomes ==
    { [kind |-> "raise", report |-> None],
      [kind |-> "no_output", report |-> None],
      [kind |-> "bad_output", report |-> None] }
    \cup { [kind |-> "report", report |-> Some(r)] : r \in WorkerReports }

\* a VerificationResult as far as the orchestrator reads it; serial tells the
\* results of different verify calls apart, as their timestamps do
Verdict(vid, verified, serial) ==
    [verifier_id |-> vid, verified |-> verified, serial |-> serial,
     evidence_count |-> IF verified THEN 1 ELSE 0,
     failures |-> IF verified THEN <<>> ELSE <<"criterion not met">>]

\* IndependentVerifier.verify: it raises or returns a verdict that carries its
\* own id, and it never passes work whose requesting agent is itself
VerifierOutcomes(req) ==
    { [kind |-> "raise", verdict |-> None],
      [kind |-> "verdict", verdict |-> Some(Verdict(verifier_id, FALSE, verifyCalls))] }
    \cup ( IF req.requesting_agent_id = verifier_id THEN {}
           ELSE { [kind |-> "verdict",
                   verdict |-> Some(Verdict(verifier_id, TRUE, verifyCalls))] } )

VerifierIds == {<<"verifier", "independent">>, AgentId("general")}

-----------------------------------------------------------------------------
(* Task state *)

\* TaskState(task_id, description) with its field defaults
NewTaskState ==
    [task_id |-> TaskId,
     status |-> PENDING,
     assigned_agent |-> None,
     assigned_agent_id |-> None,
     attempts |-> 0,
     max_attempts |-> DefaultMaxAttempts,
     verification_attempts |-> <<>>,
     latest_verification |-> None,
     task_output |-> None,
     error_history |-> <<>>,
     result |-> None,
     completed_at |-> None]

\* an entry of error_history: what it reports and from which attempt
ErrorEntry(kind, attempt, detail) ==
    [kind |-> kind, attempt |-> attempt, detail |-> detail]

\* no agent under study
NoAgentCall ==
    [pc |-> "none", name |-> "", attempt |-> 0, max_attempts |-> 0, last_result |-> <<>>,
     returned |-> <<>>, executed |-> <<>>, attested |-> <<>>]

\* no context object handed to anyone
NoContexts == [pc |-> "none", top |-> <<>>, nested |-> <<>>, heap |-> <<>>, seen |-> <<>>]

\* no execute_parallel call is under way
SubIdle ==
    /\ sub_pc = "idle"
    /\ configs = <<>>
    /\ execution_plan = <<>>
    /\ wave = 0
    /\ co = <<>>
    /\ all_results = <<>>
    /\ active_subagents = <<>>
    /\ cancel_log = <<>>
    /\ ctx = NoContexts
    /\ ag = NoAgentCall

Init ==
    /\ pc = "route"
    /\ description \in Descriptions
    /\ agents = InitialAgents
    /\ verifier_id \in VerifierIds
    /\ task = NewTaskState
    /\ current_task = TRUE
    /\ completed_tasks = <<>>
    /\ failed_tasks = <<>>
    /\ escalated_tasks = <<>>
    /\ request = None
    /\ run_result = None
    /\ workerCalls = 0
    /\ verifyCalls = 0
    /\ executeCalls = 0
    /\ trace = <<>>
    /\ SubIdle

\* the part of the state only the registry, the verifier and the caller own
Environment == <<description, agents, verifier_id>>
Buckets == <<completed_tasks, failed_tasks, escalated_tasks>>
Manager == <<sub_pc, configs, execution_plan, wave, co, all_results, active_subagents,
             cancel_log, ctx, ag>>
History == <<workerCalls, verifyCalls, executeCalls, trace>>

-----------------------------------------------------------------------------
(* run(): routing *)

\* routing that lets a task without a worker proceed
StatusWithoutAgentInProgress == IN_PROGRESS

\* the status _route_task gives a task when the registry returns no agent
StatusWithoutAgent ==
    BLOCKED

_route_task ==
    /\ pc = "route"
    /\ LET category == _categorize_task(description)
           agent == get_agent_for_category(category)
       IN  IF agent # None
           THEN /\ task' = [task EXCEPT !.assigned_agent = Some(agent[1].name),
                                        !.assigned_agent_id = Some(agent[1].agent_id),
                                        !.status = IN_PROGRESS]
                /\ pc' = "loop"
           ELSE /\ task' = [task EXCEPT !.status = StatusWithoutAgent,
                                        !.error_history =
                                            Append(@, ErrorEntry("no_agent", 0, None))]
                /\ pc' = IF StatusWithoutAgent # BLOCKED THEN "loop" ELSE "build_result"
    /\ UNCHANGED <<Environment, current_task, Buckets, request, run_result,
                   History, Manager>>

-----------------------------------------------------------------------------
(* run(): the execute and verify loop *)

\* a loop that retries as long as the task is neither Completed nor escalated
LoopConditionUnbounded ==
    /\ current_task
    /\ task.status \notin {COMPLETED, ESCALATED_TO_HUMAN}

\* the while condition of run()
LoopCondition ==
    /\ current_task
    /\ task.attempts < task.max_attempts
    /\ task.status \notin {COMPLETED, ESCALATED_TO_HUMAN}

RunLoop ==
    /\ pc = "loop"
    /\ pc' = IF LoopCondition THEN "execute" ELSE "final"
    /\ UNCHANGED <<Environment, task, current_task, Buckets, request, run_result,
                   History, Manager>>

\* where run() goes after _execute_task: to the verifier only from
\* AWAITING_VERIFICATION, otherwise back to the loop test
AfterExecute(status) ==
    IF status = AWAITING_VERIFICATION THEN "verify" ELSE "loop"

\* an attempt counter that counts an execution twice
NextAttemptsTwice(n) == n + 2

\* task.attempts += 1
NextAttempts(n) == n + 1

\* _execute_task up to the call of agent.execute
_execute_task_call ==
    /\ pc = "execute"
    /\ executeCalls' = executeCalls + 1
    /\ IF ~current_task \/ task.assigned_agent = None
       THEN /\ pc' = AfterExecute(task.status)
            /\ UNCHANGED <<task, workerCalls>>
       ELSE LET agent == get_agent(task.assigned_agent[1])
                counted == [task EXCEPT !.attempts = NextAttempts(@)]
            IN  IF agent = None
                THEN /\ task' = [counted EXCEPT
                                   !.status = FAILED,
                                   !.error_history =
                                       Append(@, ErrorEntry("agent_not_found", counted.attempts, None))]
                     /\ pc' = AfterExecute(FAILED)
                     /\ UNCHANGED workerCalls
                ELSE /\ task' = counted
                     /\ workerCalls' = workerCalls + 1
                     /\ pc' = "executing"
    /\ UNCHANGED <<Environment, current_task, Buckets, request, run_result,
                   verifyCalls, trace, Manager>>

\* the status _execute_task leaves after agent.execute raised
StatusOnExecutionError == FAILED

\* _execute_task from the return of agent.execute
_execute_task_return ==
    /\ pc = "executing"
    /\ \E o \in WorkerOutcomes :
        /\ trace' = Append(trace, [call |-> "execute", kind |-> o.kind])
        /\ LET n == task.attempts
           IN  CASE o.kind = "raise" ->
                     task' = [task EXCEPT
                                !.error_history = Append(@, ErrorEntry("execution_error", n, None)),
                                !.status = StatusOnExecutionError]
                 [] o.kind = "bad_output" ->
                     task' = [task EXCEPT
                                !.result = Some(n),
                                !.error_history = Append(@, ErrorEntry("execution_error", n, None)),
                                !.status = StatusOnExecutionError]
                 [] o.kind = "no_output" ->
                     task' = [task EXCEPT
                                !.result = Some(n),
                                !.status = AWAITING_VERIFICATION]
                 [] o.kind = "report" ->
                     task' = [task EXCEPT
                                !.result = Some(n),
                                !.task_output = Some([attempt |-> n, report |-> o.report[1]]),
                                !.status = AWAITING_VERIFICATION]
    /\ pc' = AfterExecute(task'.status)
    /\ UNCHANGED <<Environment, current_task, Buckets, request, run_result,
                   workerCalls, verifyCalls, executeCalls, Manager>>

-----------------------------------------------------------------------------
(* run(): the verification gate *)

\* ClaimedOutput(type=output.get("type", "other"), path=output.get("path", ""))
ClaimedOutput(output) ==
    [type |-> IF "type" \in DOMAIN output THEN output.type ELSE "other",
     path |-> IF "path" \in DOMAIN output THEN output.path ELSE ""]

\* the members of the VerificationType enumeration
VerificationTypes == {"file_exists", "file_not_empty", "no_placeholders", "tests_pass"}

\* CompletionCriterion(type=VerificationType(criterion.get("type", "file_exists")),
\* target=criterion.get("target", "")), with FILE_EXISTS for a value the
\* enumeration refuses
CompletionCriterion(criterion) ==
    [type |-> IF "type" \in DOMAIN criterion /\ criterion.type \in VerificationTypes
              THEN criterion.type ELSE "file_exists",
     target |-> IF "target" \in DOMAIN criterion THEN criterion.target ELSE ""]

\* default checks that leave out the placeholder check
FileChecksWithoutPlaceholders(path) ==
    << [type |-> "file_exists", target |-> path],
       [type |-> "file_not_empty", target |-> path] >>

\* the criteria added for one claimed output of type file
FileChecks(path) ==
    << [type |-> "file_exists", target |-> path],
       [type |-> "file_not_empty", target |-> path],
       [type |-> "no_placeholders", target |-> path] >>

RECURSIVE DefaultCriteria(_)
\* the default file checks: three criteria for each claimed output of type file
DefaultCriteria(outputs) ==
    IF outputs = <<>> THEN <<>>
    ELSE LET o == Head(outputs)
         IN  (IF o.type = "file" THEN FileChecks(o.path) ELSE <<>>)
             \o DefaultCriteria(Tail(outputs))

\* a request that does not say which agent did the work
RequestingAgentIdUnknown(t) == <<"unknown", "unknown">>

\* requesting_agent_id = task.assigned_agent_id or "unknown"
RequestingAgentId(t) ==
    IF t.assigned_agent_id = None THEN <<"unknown", "unknown">> ELSE t.assigned_agent_id[1]

\* the VerificationRequest _verify_task_independently builds from the task
BuildRequest(t) ==
    LET outputs == IF t.task_output = None THEN <<>> ELSE t.task_output[1].report.outputs
        criteria == IF t.task_output = None THEN <<>>
                    ELSE t.task_output[1].report.completion_criteria
        claimed == [i \in 1..Len(outputs) |-> ClaimedOutput(outputs[i])]
        declared == [i \in 1..Len(criteria) |-> CompletionCriterion(criteria[i])]
    IN  [task_id |-> t.task_id,
         claimed_outputs |-> claimed,
         completion_criteria |->
             IF declared = <<>> /\ claimed # <<>> THEN DefaultCriteria(claimed) ELSE declared,
         requesting_agent_id |-> RequestingAgentId(t),
         reported_in |-> IF t.task_output = None THEN 0 ELSE t.task_output[1].attempt]

\* _verify_task_independently up to the call of verifier.verify
_verify_task_independently_call ==
    /\ pc = "verify"
    /\ IF ~current_task
       THEN /\ pc' = "after_verify"
            /\ UNCHANGED <<task, request, verifyCalls>>
       ELSE /\ task' = [task EXCEPT !.status = VERIFICATION_IN_PROGRESS]
            /\ request' = Some(BuildRequest(task))
            /\ verifyCalls' = verifyCalls + 1
            /\ pc' = "verifying"
    /\ UNCHANGED <<Environment, current_task, Buckets, run_result,
                   workerCalls, executeCalls, trace, Manager>>

\* a gate that does not look at the verdict
StatusForVerdictIgnored(verification) == VERIFICATION_PASSED

\* the status the gate sets for a verdict
StatusForVerdict(verification) ==
    IF verification.verified THEN VERIFICATION_PASSED ELSE VERIFICATION_FAILED

\* a gate that lets a task through when it could not be verified
StatusOnVerifierErrorLenient == VERIFICATION_PASSED

\* the status the gate sets when verifier.verify raised
StatusOnVerifierError == VERIFICATION_FAILED

\* a record that keeps only the latest VerificationAttempt
RecordOnlyLatestAttempt(attempts_so_far, verification) ==
    << [attempt_number |-> Len(attempts_so_far) + 1,
        verifier_id |-> verification.verifier_id,
        passed |-> verification.verified,
        evidence_count |-> verification.evidence_count,
        failures |-> verification.failures] >>

\* the VerificationAttempt recorded for a verdict
RecordAttempt(attempts_so_far, verification) ==
    Append(attempts_so_far,
           [attempt_number |-> Len(attempts_so_far) + 1,
            verifier_id |-> verification.verifier_id,
            passed |-> verification.verified,
            evidence_count |-> verification.evidence_count,
            failures |-> verification.failures])

\* _verify_task_independently from the return of verifier.verify
_verify_task_independently_return ==
    /\ pc = "verifying"
    /\ \E o \in VerifierOutcomes(request[1]) :
        /\ trace' = Append(trace, [call |-> "verify",
                                   kind |-> IF o.kind = "raise" THEN "raise"
                                            ELSE IF o.verdict[1].verified THEN "pass"
                                            ELSE "fail"])
        /\ IF o.kind = "verdict"
           THEN LET verification == o.verdict[1]
                    recorded == [task EXCEPT
                                   !.latest_verification = Some(verification),
                                   !.verification_attempts = RecordAttempt(@, verification),
                                   !.status = StatusForVerdict(verification)]
                IN  task' = IF verification.verified THEN recorded
                            ELSE [recorded EXCEPT
                                    !.error_history =
                                        Append(@, ErrorEntry("verification_failed",
                                                             task.attempts, None))]
           ELSE task' = [task EXCEPT
                           !.status = StatusOnVerifierError,
                           !.error_history =
                               Append(@, ErrorEntry("verification_error", task.attempts, None))]
    /\ request' = None
    /\ pc' = "after_verify"
    /\ UNCHANGED <<Environment, current_task, Buckets, run_result,
                   workerCalls, verifyCalls, executeCalls, Manager>>

\* run(): verification passed, the task is complete
RunVerificationPassed ==
    /\ pc = "after_verify"
    /\ task.status = VERIFICATION_PASSED
    /\ task' = [task EXCEPT !.status = COMPLETED, !.completed_at = Some("now")]
    \* _complete_task
    /\ completed_tasks' = Append(completed_tasks, task.task_id)
    /\ current_task' = FALSE
    /\ pc' = "final"
    /\ UNCHANGED <<Environment, failed_tasks, escalated_tasks, request, run_result,
                   History, Manager>>

\* _generate_failure_report: the attempt it is written in and the verdict it shows
_generate_failure_report(t) ==
    ErrorEntry("failure_report", t.attempts, t.latest_verification)

\* the status _handle_verification_failure leaves
StatusAfterFailure(t) ==
    IF t.attempts < t.max_attempts THEN IN_PROGRESS ELSE FAILED

_handle_verification_failure ==
    /\ pc = "after_verify"
    /\ task.status = VERIFICATION_FAILED
    /\ task' = [task EXCEPT
                  !.error_history = Append(@, _generate_failure_report(task)),
                  !.status = StatusAfterFailure(task)]
    /\ pc' = "check_escalate"
    /\ UNCHANGED <<Environment, current_task, Buckets, request, run_result,
                   History, Manager>>

\* an escalation check that is off by one
ShouldEscalateLate(t) == t.attempts > t.max_attempts

\* run(): "Check if we should escalate"
ShouldEscalate(t) == t.attempts >= t.max_attempts

\* an escalation that lists the task but leaves it the current, failed task
EscalateKeepingCurrentTask ==
    /\ pc = "check_escalate"
    /\ ShouldEscalate(task)
    /\ escalated_tasks' = Append(escalated_tasks, task.task_id)
    /\ pc' = "final"
    /\ UNCHANGED <<Environment, task, current_task, completed_tasks, failed_tasks, request,
                   run_result, History, Manager>>

_escalate_to_human ==
    /\ pc = "check_escalate"
    /\ ShouldEscalate(task)
    /\ task' = [task EXCEPT !.status = ESCALATED_TO_HUMAN]
    /\ escalated_tasks' = Append(escalated_tasks, task.task_id)
    /\ current_task' = FALSE
    /\ pc' = "final"
    /\ UNCHANGED <<Environment, completed_tasks, failed_tasks, request, run_result,
                   History, Manager>>

RunRetry ==
    /\ pc = "check_escalate"
    /\ ~ShouldEscalate(task)
    /\ pc' = "loop"
    /\ UNCHANGED <<Environment, task, current_task, Buckets, request, run_result,
                   History, Manager>>

\* run(): "Handle final state"
RunFinalState ==
    /\ pc = "final"
    /\ IF current_task /\ task.status = FAILED
       THEN /\ failed_tasks' = Append(failed_tasks, task.task_id)
            /\ current_task' = FALSE
       ELSE UNCHANGED <<failed_tasks, current_task>>
    /\ pc' = "build_result"
    /\ UNCHANGED <<Environment, task, completed_tasks, escalated_tasks, request,
                   run_result,
                   History, Manager>>

\* error_history[-3:]
LastThree(history) ==
    SubSeq(history, IF Len(history) > 3 THEN Len(history) - 2 ELSE 1, Len(history))

\* the entries _build_result lists for the tasks of each bucket
ListedCompleted(bucket) ==
    [i \in 1..Len(bucket) |->
        [task_id |-> bucket[i], status |-> task.status,
         verification_attempts |-> Len(task.verification_attempts),
         completed_at |-> task.completed_at]]

ListedFailed(bucket) ==
    [i \in 1..Len(bucket) |->
        [task_id |-> bucket[i], status |-> task.status,
         attempts |-> task.attempts,
         error_history |-> LastThree(task.error_history)]]

ListedEscalated(bucket) ==
    [i \in 1..Len(bucket) |->
        [task_id |-> bucket[i], status |-> task.status,
         attempts |-> task.attempts,
         requires_human_review |-> TRUE]]

_build_result ==
    /\ pc = "build_result"
    /\ run_result' = Some([task_id |-> TaskId,
                           completed |-> Len(completed_tasks),
                           failed |-> Len(failed_tasks),
                           escalated |-> Len(escalated_tasks),
                           tasks |-> [completed |-> ListedCompleted(completed_tasks),
                                      failed |-> ListedFailed(failed_tasks),
                                      escalated |-> ListedEscalated(escalated_tasks)]])
    /\ pc' = "done"
    /\ UNCHANGED <<Environment, task, current_task, Buckets, request,
                   History, Manager>>

Next ==
    \/ _route_task
    \/ RunLoop
    \/ _execute_task_call
    \/ _execute_task_return
    \/ _verify_task_independently_call
    \/ _verify_task_independently_return
    \/ RunVerificationPassed
    \/ _handle_verification_failure
    \/ _escalate_to_human
    \/ RunRetry
    \/ RunFinalState
    \/ _build_result

Spec == Init /\ [][Next]_vars

-----------------------------------------------------------------------------
(* _verify_task_independently over the reports a worker can hand in *)

\* the dicts a worker can list under "outputs": with or without a "type"
ReportedOutputs ==
    { [type |-> ty, path |-> p] : ty \in {"file", "endpoint"}, p \in {"a.py", "b.py"} }
    \cup { [path |-> "a.py"] }

\* the dicts a worker can list under "completion_criteria": a type of the
\* enumeration, a type it refuses, or no type
ReportedCriteria ==
    { [type |-> ty, target |-> "a.py"] : ty \in {"tests_pass", "lint"} }
    \cup { [target |-> "b.py"] }

\* longest list of outputs in a report
MaxOutputs == 2

RequestReports ==
    { [outputs |-> o, completion_criteria |-> c] :
        o \in UNION { [1..n -> ReportedOutputs] : n \in 0..MaxOutputs },
        c \in {<<>>} \cup { <<x>> : x \in ReportedCriteria } }

\* run() after routing and a first execution that returned a report
RequestInit ==
    /\ pc = "verify"
    /\ description \in Descriptions
    /\ agents = InitialAgents
    /\ verifier_id \in VerifierIds
    /\ \E r \in RequestReports :
         LET agent == get_agent_for_category(_categorize_task(description))[1]
         IN  task = [NewTaskState EXCEPT
                       !.assigned_agent = Some(agent.name),
                       !.assigned_agent_id = Some(agent.agent_id),
                       !.attempts = 1,
                       !.result = Some(1),
                       !.task_output = Some([attempt |-> 1, report |-> r]),
                       !.status = AWAITING_VERIFICATION]
    /\ current_task = TRUE
    /\ completed_tasks = <<>>
    /\ failed_tasks = <<>>
    /\ escalated_tasks = <<>>
    /\ request = None
    /\ run_result = None
    /\ workerCalls = 1
    /\ verifyCalls = 0
    /\ executeCalls = 1
    /\ trace = <<[call |-> "execute", kind |-> "report"]>>
    /\ SubIdle

RequestNext ==
    _verify_task_independently_call

SpecRequest == RequestInit /\ [][RequestNext]_vars

-----------------------------------------------------------------------------
(* _categorize_task over descriptions of up to two words *)

Words ==
    { <<"B", "u", "i", "l", "d">>,
      <<"R", "e", "a", "c", "t">>,
      <<"A", "P", "I">>,
      <<"S", "Q", "L">>,
      <<"D", "e", "p", "l", "o", "y">>,
      <<"r", "a", "n", "d", "o", "m">>,
      <<"p", "a", "g", "e">>,
      <<"Q", "u", "e", "r", "y">>,
      <<"d", "o", "c", "s">> }

\* most words in a description
MaxWords == 2

RECURSIVE Joined(_)
\* the words of a list separated by single spaces
Joined(ws) ==
    IF ws = <<>> THEN <<>>
    ELSE IF Len(ws) = 1 THEN ws[1]
    ELSE ws[1] \o <<" ">> \o Joined(Tail(ws))

Texts == { Joined(ws) : ws \in UNION { [1..n -> Words] : n \in 0..MaxWords } }

\* run() called with a description of up to MaxWords words
CategorizeInit ==
    /\ pc = "route"
    /\ description \in Texts
    /\ agents = InitialAgents
    /\ verifier_id \in VerifierIds
    /\ task = NewTaskState
    /\ current_task = TRUE
    /\ completed_tasks = <<>>
    /\ failed_tasks = <<>>
    /\ escalated_tasks = <<>>
    /\ request = None
    /\ run_result = None
    /\ workerCalls = 0
    /\ verifyCalls = 0
    /\ executeCalls = 0
    /\ trace = <<>>
    /\ SubIdle

CategorizeNext ==
    _route_task

SpecCategorize == CategorizeInit /\ [][CategorizeNext]_vars

-----------------------------------------------------------------------------
(* run() over a registry that lacks some of the default agents *)

\* the agents table of the registry held in OrchestratorAgent.registry: the
\* default table, and tables in which the name a category maps to is absent
Registries ==
    { [n \in DefaultAgents \ missing |-> InitialAgents[n]] :
        missing \in {{}, {"general"}, {"database"}} }

RouteInit ==
    /\ pc = "route"
    /\ description \in Descriptions
    /\ agents \in Registries
    /\ verifier_id \in VerifierIds
    /\ task = NewTaskState
    /\ current_task = TRUE
    /\ completed_tasks = <<>>
    /\ failed_tasks = <<>>
    /\ escalated_tasks = <<>>
    /\ request = None
    /\ run_result = None
    /\ workerCalls = 0
    /\ verifyCalls = 0
    /\ executeCalls = 0
    /\ trace = <<>>
    /\ SubIdle

SpecRoute == RouteInit /\ [][Next]_vars

-----------------------------------------------------------------------------
(* Properties of run() *)

Terminal == {COMPLETED, FAILED, ESCALATED_TO_HUMAN}

\* the calls of the worker / the verifier that have returned or raised
Executions == {i \in 1..Len(trace) : trace[i].call = "execute"}
Verifications == {i \in 1..Len(trace) : trace[i].call = "verify"}

ExecutionRaised(i) == trace[i].call = "execute" /\ trace[i].kind \in {"raise", "bad_output"}

\* C1: a task is Completed only with a non-empty verification_attempts whose
\* last entry passed, and status Completed is only ever set directly after the
\* verifier returned verified = true, out of VerificationPassed
C1_CompletionImpliesVerification ==
    [][ task'.status = COMPLETED =>
          /\ task'.verification_attempts # <<>>
          /\ Last(task'.verification_attempts).passed
          /\ task.status # COMPLETED =>
                /\ task.status = VERIFICATION_PASSED
                /\ Last(trace) = [call |-> "verify", kind |-> "pass"]
                /\ task.latest_verification[1].verified ]_vars

C1_Witness ==
    /\ pc = "done"
    /\ task.status = COMPLETED
    /\ Len(task.verification_attempts) = 2
    /\ ~task.verification_attempts[1].passed

C4_RetryBound ==
    /\ workerCalls <= task.max_attempts
    /\ (workerCalls = task.max_attempts /\ pc \in {"loop", "final", "build_result", "done"})
          => task.status \in Terminal
    /\ (pc = "done" /\ workerCalls > 0) => task.status \in Terminal

C4_Witness ==
    /\ pc = "done"
    /\ workerCalls = task.max_attempts
    /\ \E i \in Executions : ExecutionRaised(i)

\* the calls of the worker and of the verifier that have not returned yet
InFlight == (workerCalls - Cardinality(Executions)) + (verifyCalls - Cardinality(Verifications))

\* C5: at most one call of the worker or the verifier is outstanding for the
\* task; attempts changes only in _execute_task, by exactly 1, and every call
\* of _execute_task changes it
C5_OneAttemptAtATime ==
    [][ /\ InFlight' <= 1
        /\ (pc' = "executing" => request' = None)
        /\ task'.attempts # task.attempts =>
              (task'.attempts = task.attempts + 1 /\ executeCalls' = executeCalls + 1)
        /\ executeCalls' # executeCalls => task'.attempts = task.attempts + 1
        /\ task'.attempts = executeCalls' ]_vars

C5_Witness ==
    /\ pc = "executing"
    /\ task.attempts = 3
    /\ InFlight = 1
    /\ Cardinality(Verifications) = 2

\* every execution so far returned and every verification returned a failing verdict
AlwaysFailingVerdict ==
    /\ trace # <<>>
    /\ \A i \in 1..Len(trace) :
          IF trace[i].call = "execute" THEN ~ExecutionRaised(i) ELSE trace[i].kind = "fail"

\* C6: when every execution returns and every verdict fails, run() ends with
\* the task EscalatedToHuman after exactly max_attempts execute/verify cycles
\* and with max_attempts verification attempt records
C6_EscalatesAfterMaxAttempts ==
    (pc = "done" /\ AlwaysFailingVerdict) =>
        /\ task.status = ESCALATED_TO_HUMAN
        /\ Cardinality(Executions) = task.max_attempts
        /\ Cardinality(Verifications) = task.max_attempts
        /\ task.attempts = task.max_attempts
        /\ Len(task.verification_attempts) = task.max_attempts

C6_Witness ==
    /\ pc = "done"
    /\ AlwaysFailingVerdict
    /\ Len(task.verification_attempts) = DefaultMaxAttempts

\* C7 (as claimed): once an execution has raised, its error is in
\* error_history and the task is and stays Failed: the worker is not executed
\* again and nothing is submitted to the verifier
C7_ExecutionErrorIsFinal ==
    [][ (\E i \in Executions : ExecutionRaised(i)) =>
          /\ \E j \in 1..Len(task.error_history) : task.error_history[j].kind = "execution_error"
          /\ task'.status = FAILED
          /\ workerCalls' = workerCalls
          /\ verifyCalls' = verifyCalls ]_vars

LastCallVerifierRaised ==
    trace # <<>> /\ Last(trace) = [call |-> "verify", kind |-> "raise"]

\* C8: after the verifier raised, the verify step leaves the task
\* VerificationFailed, and from there the task gets another attempt when
\* attempts < max_attempts and is EscalatedToHuman otherwise
C8_VerifierErrorIsFailure ==
    LastCallVerifierRaised =>
        /\ pc = "after_verify" => task.status = VERIFICATION_FAILED
        /\ pc = "check_escalate" =>
              task.status = (IF task.attempts < task.max_attempts THEN IN_PROGRESS ELSE FAILED)
        /\ pc \in {"loop", "execute"} =>
              (task.attempts < task.max_attempts /\ task.status = IN_PROGRESS /\ current_task)
        /\ pc \in {"final", "build_result", "done"} =>
              /\ task.status = ESCALATED_TO_HUMAN
              /\ task.attempts = task.max_attempts
              /\ escalated_tasks = <<task.task_id>>

C8_Witness ==
    /\ LastCallVerifierRaised
    /\ pc = "done"
    /\ task.status = ESCALATED_TO_HUMAN

\* C9 (as claimed): verification_attempts holds one record for each verify
\* step performed, whatever its outcome
C9_OneRecordPerVerifyStep ==
    Len(task.verification_attempts) = Cardinality(Verifications)

\* C10: when run() returns the task is Completed, Failed, EscalatedToHuman or
\* Blocked, it is listed in the bucket of that status and in no other, and the
\* returned counts and entries say the same
C10_OneTerminalOutcome ==
    pc = "done" =>
        /\ task.status \in Terminal \cup {BLOCKED}
        /\ completed_tasks = (IF task.status = COMPLETED THEN <<task.task_id>> ELSE <<>>)
        /\ failed_tasks = (IF task.status = FAILED THEN <<task.task_id>> ELSE <<>>)
        /\ escalated_tasks = (IF task.status = ESCALATED_TO_HUMAN THEN <<task.task_id>> ELSE <<>>)
        /\ LET r == run_result[1]
           IN  /\ r.completed = Len(completed_tasks)
               /\ r.failed = Len(failed_tasks)
               /\ r.escalated = Len(escalated_tasks)
               /\ r.completed + r.failed + r.escalated = (IF task.status = BLOCKED THEN 0 ELSE 1)
               /\ \A i \in 1..Len(r.tasks.escalated) :
                     r.tasks.escalated[i].status = ESCALATED_TO_HUMAN
               /\ \A i \in 1..Len(r.tasks.failed) : r.tasks.failed[i].status = FAILED
               /\ \A i \in 1..Len(r.tasks.completed) : r.tasks.completed[i].status = COMPLETED

C10_Witness ==
    /\ pc = "done"
    /\ task.status = ESCALATED_TO_HUMAN
    /\ run_result[1].escalated = 1
    /\ run_result[1].failed = 0

\* the edges of the task lifecycle
LifecycleEdges ==
    { <<PENDING, IN_PROGRESS>>, <<PENDING, BLOCKED>>,
      <<IN_PROGRESS, AWAITING_VERIFICATION>>, <<IN_PROGRESS, FAILED>>,
      <<AWAITING_VERIFICATION, VERIFICATION_IN_PROGRESS>>,
      <<VERIFICATION_IN_PROGRESS, VERIFICATION_PASSED>>,
      <<VERIFICATION_IN_PROGRESS, VERIFICATION_FAILED>>,
      <<VERIFICATION_PASSED, COMPLETED>>,
      <<VERIFICATION_FAILED, IN_PROGRESS>>, <<VERIFICATION_FAILED, FAILED>>,
      <<VERIFICATION_FAILED, ESCALATED_TO_HUMAN>> }

\* C11 (as claimed): every change of the task's status is an edge of the
\* lifecycle, and VerificationFailed goes back to Executing only while
\* attempts remain
C11_StatusFollowsLifecycle ==
    [][ task'.status # task.status =>
          /\ <<task.status, task'.status>> \in LifecycleEdges
          /\ (task.status = VERIFICATION_FAILED /\ task'.status = IN_PROGRESS)
                => task.attempts < task.max_attempts ]_vars

\* C12 (as claimed): once the task is Completed, Failed or EscalatedToHuman
\* no step changes any of its fields
C12_TerminalStatesAbsorbing ==
    [][ task.status \in Terminal => task' = task ]_vars

\* the outcome of the latest execution
LatestExecution ==
    trace[CHOOSE i \in Executions : \A j \in Executions : j <= i]

\* C29 (as claimed): the request in flight to the verifier in attempt k
\* carries the report of the k-th execution, and no claimed outputs when
\* that execution returned no task_output
C29_RequestCarriesLatestReport ==
    pc = "verifying" =>
        /\ LatestExecution.kind = "report" =>
              request[1].reported_in = task.attempts
        /\ LatestExecution.kind = "no_output" =>
              /\ request[1].claimed_outputs = <<>>
              /\ request[1].completion_criteria = <<>>

\* the kinds of the verifications so far, in order
VerificationKinds ==
    LET vs == SelectSeq(trace, LAMBDA e : e.call = "verify")
    IN  [i \in 1..Len(vs) |-> vs[i].kind]

\* no execution raised, and every verification but the last failed, the last passed
FailuresThenPass ==
    /\ \A i \in Executions : ~ExecutionRaised(i)
    /\ VerificationKinds # <<>>
    /\ Last(VerificationKinds) = "pass"
    /\ \A i \in 1..(Len(VerificationKinds) - 1) : VerificationKinds[i] \in {"fail", "raise"}

\* C30 (as claimed): when k < max_attempts verifications fail and the next
\* passes, no execution raising, every failed verification is followed by
\* another execution and run() ends with the task Completed, attempts = k + 1
\* and k + 1 verification attempt records, neither escalated nor failed
C30_RetryUntilVerified ==
    (pc = "done" /\ FailuresThenPass /\ Len(VerificationKinds) - 1 < task.max_attempts) =>
        /\ \A i \in Verifications :
              trace[i].kind # "pass" => (i < Len(trace) /\ trace[i + 1].call = "execute")
        /\ task.status = COMPLETED
        /\ task.attempts = Len(VerificationKinds)
        /\ Len(task.verification_attempts) = Len(VerificationKinds)
        /\ escalated_tasks = <<>>
        /\ failed_tasks = <<>>

\* the registry has no agent for the category of the task
NoAgentForCategory ==
    get_agent_for_category(_categorize_task(description)) = None

\* C31: when routing finds no worker for the task's category, the routing step
\* takes the task from Pending to Blocked and appends the reason to
\* error_history; from then on the task stays Blocked with attempts 0, nothing
\* more is recorded, and neither a worker nor the verifier is invoked
C31_NoAgentBlocks ==
    [][ NoAgentForCategory =>
          /\ pc = "route" =>
                /\ task.status = PENDING
                /\ task'.status = BLOCKED
                /\ task'.error_history =
                       Append(task.error_history, ErrorEntry("no_agent", 0, None))
          /\ pc # "route" =>
                /\ task.status = BLOCKED
                /\ task' = task
          /\ task'.attempts = 0
          /\ workerCalls' = 0
          /\ verifyCalls' = 0
          /\ executeCalls' = 0
          /\ trace' = <<>> ]_vars

C31_Witness ==
    /\ NoAgentForCategory
    /\ pc = "done"
    /\ task.status = BLOCKED
    /\ Len(task.error_history) = 1
    /\ run_result # None

\* the report the verify step reads, as the worker wrote it
StoredReport == task.task_output[1].report

\* the paths of the claimed outputs of type file, in the order claimed
FilePaths(claimed) ==
    LET file == {i \in 1..Len(claimed) : claimed[i].type = "file"}
        \* the k-th smallest index of file
        Kth[k \in 1..Cardinality(file)] ==
            CHOOSE i \in file : Cardinality({j \in file : j < i}) = k - 1
    IN  [k \in 1..Cardinality(file) |-> claimed[Kth[k]].path]

\* the targets of the submitted criteria of one type, in the order submitted
TargetsOf(criteria, type) ==
    LET of == {i \in 1..Len(criteria) : criteria[i].type = type}
        Kth[k \in 1..Cardinality(of)] ==
            CHOOSE i \in of : Cardinality({j \in of : j < i}) = k - 1
    IN  [k \in 1..Cardinality(of) |-> criteria[Kth[k]].target]

\* C32: a request built from a report with claimed outputs and no criteria
\* carries, for every claimed output of type file, exactly the three checks
\* file exists, file not empty and no placeholders on that output's path and
\* nothing for outputs of other types; a request built from a report with
\* criteria carries one criterion per reported criterion and no default one
C32_DefaultCriteriaForFilesOnly ==
    (pc = "verifying" /\ request # None /\ task.task_output # None) =>
        LET req == request[1]
            paths == FilePaths(req.claimed_outputs)
        IN  /\ Len(req.claimed_outputs) = Len(StoredReport.outputs)
            /\ (StoredReport.outputs # <<>> /\ StoredReport.completion_criteria = <<>>) =>
                  /\ Len(req.completion_criteria) = 3 * Len(paths)
                  /\ \A ty \in {"file_exists", "file_not_empty", "no_placeholders"} :
                        TargetsOf(req.completion_criteria, ty) = paths
            /\ StoredReport.completion_criteria # <<>> =>
                  /\ Len(req.completion_criteria) = Len(StoredReport.completion_criteria)
                  /\ \A i \in 1..Len(req.completion_criteria) :
                        req.completion_criteria[i].target =
                            StoredReport.completion_criteria[i].target

\* a request for a file and an output of another type, claimed without criteria
C32_Witness ==
    /\ pc = "verifying"
    /\ request # None
    /\ StoredReport.completion_criteria = <<>>
    /\ Len(request[1].claimed_outputs) = 2
    /\ request[1].claimed_outputs[1].type = "other"
    /\ request[1].claimed_outputs[2].type = "file"
    /\ Len(request[1].completion_criteria) = 3

\* after is before with zero or more entries appended at its end
GrowsAtEnd(before, after) ==
    /\ Len(before) <= Len(after)
    /\ SubSeq(after, 1, Len(before)) = before

\* the step records a worker's exception, a failing verdict or a verifier's
\* exception
RecordsFailure ==
    /\ trace' # trace
    /\ \/ /\ Last(trace').call = "execute"
          /\ Last(trace').kind \in {"raise", "bad_output"}
       \/ /\ Last(trace').call = "verify"
          /\ Last(trace').kind \in {"fail", "raise"}

\* C33: within one run() every step leaves error_history and
\* verification_attempts unchanged or appends at their end, and every worker
\* exception and every failed or errored verification appends at least one
\* entry to error_history
C33_HistoriesOnlyGrow ==
    [][ /\ GrowsAtEnd(task.error_history, task'.error_history)
        /\ GrowsAtEnd(task.verification_attempts, task'.verification_attempts)
        /\ RecordsFailure => Len(task'.error_history) > Len(task.error_history) ]_vars

\* a run in which a worker raised, a verdict failed and the verifier raised,
\* with an entry for each and the one verdict on record
C33_Witness ==
    /\ pc = "done"
    /\ \E i \in Executions : ExecutionRaised(i)
    /\ \E i \in Verifications : trace[i].kind = "fail"
    /\ \E i \in Verifications : trace[i].kind = "raise"
    /\ \E i, j, k \in 1..Len(task.error_history) :
          /\ task.error_history[i].kind = "execution_error"
          /\ task.error_history[j].kind = "verification_failed"
          /\ task.error_history[k].kind = "verification_error"
    /\ Len(task.verification_attempts) = 1

\* C34: the result of run() for a task that ended EscalatedToHuman carries the
\* task's verification attempt records and its error history, not only the
\* number of attempts
C34_EscalatedResultCarriesTrail ==
    (pc = "done" /\ task.status = ESCALATED_TO_HUMAN) =>
        /\ Len(run_result[1].tasks.escalated) = 1
        /\ LET listed == run_result[1].tasks.escalated[1]
           IN  /\ "verification_attempts" \in DOMAIN listed
               /\ listed.verification_attempts = task.verification_attempts
               /\ "error_history" \in DOMAIN listed
               /\ listed.error_history = task.error_history

\* some keyword of the category is a substring of the lower-cased description
Matches(category) ==
    \E word \in keywords[category] : In(word, lower(description))

\* C38: the category a description is routed by is the first of frontend,
\* backend, database, devops one of whose keywords is a substring of the
\* lower-cased description, and general when no keyword of any of them is;
\* it depends on the description alone
C38_FirstMatchingCategory ==
    (pc = "loop" /\ task.assigned_agent # None) =>
        LET category == task.assigned_agent[1]
            order == <<"frontend", "backend", "database", "devops">>
        IN  /\ category = "general" <=> \A i \in 1..4 : ~Matches(order[i])
            /\ category # "general" =>
                  \E i \in 1..4 :
                     /\ category = order[i]
                     /\ Matches(order[i])
                     /\ \A j \in 1..(i - 1) : ~Matches(order[j])

\* "SQL React" has a database and a frontend keyword, both in capitals, and is
\* a frontend task
C38_Witness ==
    /\ pc = "loop"
    /\ description = <<"S", "Q", "L", " ", "R", "e", "a", "c", "t">>
    /\ Matches("database")
    /\ task.assigned_agent = Some("frontend")

\* C39 (as claimed): a failure report in error_history follows the entry of
\* the verification it reports on, and shows that verification: the failing
\* verdict of the same attempt, with this verifier's id and its failures, or
\* no verdict at all when the verifier raised in that attempt
C39_ReportShowsOwnAttempt ==
    \A i \in 1..Len(task.error_history) :
        task.error_history[i].kind = "failure_report" =>
            /\ i > 1
            /\ task.error_history[i - 1].attempt = task.error_history[i].attempt
            /\ task.error_history[i - 1].kind \in {"verification_failed", "verification_error"}
            /\ task.error_history[i - 1].kind = "verification_failed" =>
                  /\ task.error_history[i].detail # None
                  /\ task.error_history[i].detail[1].verifier_id = verifier_id
                  /\ ~task.error_history[i].detail[1].verified
                  /\ task.error_history[i].detail[1].failures # <<>>
            /\ task.error_history[i - 1].kind = "verification_error" =>
                  task.error_history[i].detail = None

-----------------------------------------------------------------------------
(* SubagentManager *)

CREATED == "created"
RUNNING == "running"
CANCELLED == "cancelled"

\* largest batch handed to execute_parallel
MaxSubtasks == 2

SubtaskIds == <<"A", "B", "C", "D">>
AgentTypes == {"general", "reviewer"}
DependencyChoices == {{}, {"A"}, {"B"}}

\* a SubagentConfig: its task's subtask_id and dependencies, and its agent_type
ConfigBatches ==
    UNION { { [i \in 1..n |-> [subtask_id |-> SubtaskIds[i],
                               agent_type |-> ty[i],
                               dependencies |-> deps[i]]] :
                ty \in [1..n -> AgentTypes], deps \in [1..n -> DependencyChoices] } :
            n \in 1..MaxSubtasks }

\* the batch of test_multi_agent_coordination: two subtasks without
\* dependencies and a third that depends on both, with any agent types
CoordinationBatches ==
    { [i \in 1..3 |-> [subtask_id |-> SubtaskIds[i],
                       agent_type |-> ty[i],
                       dependencies |-> IF i = 3 THEN {"A", "B"} ELSE {}]] :
        ty \in [1..3 -> AgentTypes] }

Range(s) == {s[i] : i \in 1..Len(s)}

\* a readiness test that is content with one satisfied dependency
ReadyAnyDependency(remaining, completed) ==
    SelectSeq(remaining, LAMBDA c : c.dependencies = {} \/ c.dependencies \cap completed # {})

\* the remaining subtasks all of whose dependencies are completed
Ready(remaining, completed) ==
    SelectSeq(remaining, LAMBDA c : c.dependencies \subseteq completed)

\* a fallback that releases one blocked subtask at a time
CanRunOneWhenBlocked(remaining, completed) ==
    IF Ready(remaining, completed) = <<>> THEN <<Head(remaining)>>
    ELSE Ready(remaining, completed)

\* can_run: the ready subtasks or, when there is none, all that remain
CanRun(remaining, completed) ==
    IF Ready(remaining, completed) = <<>> THEN remaining ELSE Ready(remaining, completed)

\* a removal that goes by subtask id
WithoutIds(remaining, can_run) ==
    SelectSeq(remaining, LAMBDA c : c.subtask_id \notin {d.subtask_id : d \in Range(can_run)})

\* remaining = [c for c in remaining if c not in can_run]
Without(remaining, can_run) ==
    SelectSeq(remaining, LAMBDA c : c \notin Range(can_run))

RECURSIVE Resolve(_, _)
\* the while loop of _resolve_dependencies
Resolve(remaining, completed) ==
    IF remaining = <<>> THEN <<>>
    ELSE LET can_run == CanRun(remaining, completed)
         IN  <<can_run>> \o
             Resolve(Without(remaining, can_run),
                     completed \cup {c.subtask_id : c \in Range(can_run)})

\* a resolution that runs the first config of the first wave on its own
ResolveSplittingFirstWave(cs) ==
    LET ws == Resolve(cs, {})
    IN  IF ws # <<>> /\ Len(ws[1]) > 1
        THEN << <<Head(ws[1])>>, Tail(ws[1]) >> \o Tail(ws)
        ELSE ws

_resolve_dependencies(cs) ==
    Resolve(cs, {})

\* a SubagentResult
SubagentResult(config, agent_id, status, error) ==
    [subtask_id |-> config.subtask_id, agent_id |-> agent_id,
     agent_type |-> config.agent_type, status |-> status, error |-> error]

\* what the awaited agent.execute of a subagent does within wait_for
SubagentOutcomes == {"return", "raise", "timeout"}

\* the coroutines asyncio.gather starts for one wave
NewWave(w) == [i \in 1..Len(w) |-> [state |-> "created", result |-> None]]

SubInit ==
    /\ pc = "idle"
    /\ description = <<>>
    /\ agents = InitialAgents
    /\ verifier_id \in VerifierIds
    /\ task = NewTaskState
    /\ current_task = FALSE
    /\ completed_tasks = <<>>
    /\ failed_tasks = <<>>
    /\ escalated_tasks = <<>>
    /\ request = None
    /\ run_result = None
    /\ workerCalls = 0
    /\ verifyCalls = 0
    /\ executeCalls = 0
    /\ trace = <<>>
    /\ sub_pc = "start"
    /\ configs \in ConfigBatches \cup CoordinationBatches
    /\ execution_plan = <<>>
    /\ wave = 0
    /\ co = <<>>
    /\ all_results = <<>>
    /\ active_subagents = <<>>
    /\ cancel_log = <<>>
    /\ ctx = NoContexts
    /\ ag = NoAgentCall

Orchestrator ==
    <<pc, description, agents, verifier_id, task, current_task, completed_tasks,
      failed_tasks, escalated_tasks, request, run_result, verifyCalls, executeCalls>>

\* tracking[key] = value, as a dict assignment
Put(tracking, key, value) ==
    [k \in DOMAIN tracking \cup {key} |-> IF k = key THEN value ELSE tracking[k]]

RECURSIVE Launched(_, _)
\* launch(): a tracking entry for every config whose agent can be spawned;
\* the registry has no create_agent, so an unregistered agent_type raises
Launched(cs, tracking) ==
    IF cs = <<>> THEN tracking
    ELSE Launched(Tail(cs),
                  IF get_agent(Head(cs).agent_type) = None THEN tracking
                  ELSE Put(tracking, Head(cs).subtask_id,
                           [status |-> CREATED, result |-> None]))

launch ==
    /\ sub_pc = "start"
    /\ active_subagents' = Launched(configs, active_subagents)
    /\ UNCHANGED <<Orchestrator, ag, ctx, cancel_log, workerCalls, trace, sub_pc, configs, execution_plan,
                   wave, co, all_results>>

\* execute_parallel up to the gather of the first wave
execute_parallel ==
    /\ sub_pc = "start"
    /\ execution_plan' = _resolve_dependencies(configs)
    /\ wave' = 1
    /\ co' = NewWave(execution_plan'[1])
    /\ sub_pc' = "gather"
    /\ UNCHANGED <<Orchestrator, ag, ctx, cancel_log, workerCalls, trace, configs, all_results, active_subagents>>

\* tracking status update, made only for a tracked subtask
Track(tracking, id, status, result) ==
    IF id \in DOMAIN tracking
    THEN [tracking EXCEPT ![id] = [status |-> status,
                                   result |-> IF result = None THEN @.result ELSE result]]
    ELSE tracking

\* an agent withheld from a subtask one of whose dependencies has failed
ObtainAgentIfDependenciesCompleted(config) ==
    IF \E k \in 1..Len(all_results) : /\ all_results[k].subtask_id \in config.dependencies
                                       /\ all_results[k].status = FAILED
    THEN None
    ELSE get_agent(config.agent_type)

\* the agent of _execute_subagent: registry.get_agent, else
\* registry.create_agent, which the registry does not have
ObtainAgent(config) ==
    get_agent(config.agent_type)

\* an exception that ends the coroutine without a result
Uncaught(i, config, error) ==
    co' = [co EXCEPT ![i] = [state |-> "raised", result |-> None]]

\* the except handlers of _execute_subagent: the coroutine returns a Failed
\* result with agent_id "unknown"
Caught(i, config, error) ==
    co' = [co EXCEPT ![i] = [state |-> "done",
                             result |-> Some(SubagentResult(config, "unknown", FAILED, error))]]

\* one error text for whatever ended the worker
ErrorOfAnyException(o) ==
    "error"

\* the error of the result: f"Timeout after ..." for a TimeoutError, str(e) otherwise
ErrorOf(o) ==
    IF o = "timeout" THEN "Timeout" ELSE "error"

\* the status of the result of a subagent whose worker returned
StatusOnReturn == COMPLETED

\* _execute_subagent up to the awaited agent.execute
_execute_subagent_call(i) ==
    /\ sub_pc = "gather"
    /\ co[i].state = "created"
    /\ LET config == execution_plan[wave][i]
           agent == ObtainAgent(config)
       IN  /\ active_subagents' = Track(active_subagents, config.subtask_id, RUNNING, None)
           /\ IF agent = None
              THEN /\ Caught(i, config, "no create_agent")
                   /\ trace' = Append(trace, [call |-> "execute", kind |-> "no_agent",
                                              subtask |-> config.subtask_id])
                   /\ UNCHANGED workerCalls
              ELSE /\ co' = [co EXCEPT ![i].state = "awaiting"]
                   /\ workerCalls' = workerCalls + 1
                   /\ trace' = Append(trace, [call |-> "start", kind |-> "start",
                                              subtask |-> config.subtask_id])
    /\ UNCHANGED <<Orchestrator, ag, ctx, cancel_log, sub_pc, configs, execution_plan, wave, all_results>>

\* _execute_subagent from the end of the awaited agent.execute
_execute_subagent_return(i) ==
    /\ sub_pc = "gather"
    /\ co[i].state = "awaiting"
    /\ \E o \in SubagentOutcomes :
        LET config == execution_plan[wave][i]
            agent == ObtainAgent(config)[1]
            result == SubagentResult(config, agent.agent_id, StatusOnReturn, "")
        IN  /\ IF o = "return"
               THEN /\ co' = [co EXCEPT ![i] = [state |-> "done", result |-> Some(result)]]
                    /\ active_subagents' =
                          Track(active_subagents, config.subtask_id, COMPLETED, Some(result))
               ELSE /\ Caught(i, config, ErrorOf(o))
                    /\ UNCHANGED active_subagents
            /\ trace' = Append(trace, [call |-> "execute", kind |-> o,
                                       subtask |-> config.subtask_id])
    /\ UNCHANGED <<Orchestrator, ag, ctx, cancel_log, workerCalls, sub_pc, configs, execution_plan, wave,
                   all_results>>

\* a loop that moves on with the results at hand, without awaiting the wave
GatherWithoutWaiting ==
    /\ sub_pc = "gather"
    /\ all_results' = all_results \o
          [i \in 1..Len(SelectSeq(co, LAMBDA c : c.state = "done")) |->
              SelectSeq(co, LAMBDA c : c.state = "done")[i].result[1]]
    /\ IF wave < Len(execution_plan)
       THEN /\ wave' = wave + 1
            /\ co' = NewWave(execution_plan[wave + 1])
            /\ sub_pc' = "gather"
       ELSE /\ co' = <<>>
            /\ sub_pc' = "done"
            /\ UNCHANGED wave
    /\ UNCHANGED <<Orchestrator, ag, ctx, cancel_log, workerCalls, trace, configs, execution_plan,
                   active_subagents>>

\* execute_parallel from the return of gather: every coroutine of the wave is
\* done; its result is appended and the next wave, if any, is started
gather ==
    /\ sub_pc = "gather"
    /\ \A i \in 1..Len(co) : co[i].state = "done"
    /\ all_results' = all_results \o [i \in 1..Len(co) |-> co[i].result[1]]
    /\ IF wave < Len(execution_plan)
       THEN /\ wave' = wave + 1
            /\ co' = NewWave(execution_plan[wave + 1])
            /\ sub_pc' = "gather"
       ELSE /\ co' = <<>>
            /\ sub_pc' = "done"
            /\ UNCHANGED wave
    /\ UNCHANGED <<Orchestrator, ag, ctx, cancel_log, workerCalls, trace, configs, execution_plan,
                   active_subagents>>

\* most calls of cancel_subagent followed in one execution
MaxCancels == 2

\* the status cancel_subagent finds for a subtask id
TrackedStatus(tracking, id) ==
    IF id \in DOMAIN tracking THEN tracking[id].status ELSE "untracked"

\* the statuses cancel_subagent takes for done
DoneForCancel == {COMPLETED, FAILED}

\* cancel_subagent(subtask_id)
cancel_subagent(id) ==
    /\ sub_pc \in {"start", "gather", "done"}
    /\ Len(cancel_log) < MaxCancels
    /\ LET found == TrackedStatus(active_subagents, id)
           returned == found # "untracked" /\ found \notin DoneForCancel
       IN  /\ active_subagents' =
                 IF returned
                 THEN [active_subagents EXCEPT ![id].status = CANCELLED]
                 ELSE active_subagents
           /\ cancel_log' = Append(cancel_log,
                                   [subtask_id |-> id, found |-> found, returned |-> returned,
                                    left |-> TrackedStatus(active_subagents', id)])
    /\ UNCHANGED <<Orchestrator, ag, ctx, workerCalls, trace, sub_pc, configs, execution_plan,
                   wave, co, all_results>>

SubNext ==
    \/ launch
    \/ execute_parallel
    \/ \E i \in 1..Len(co) : _execute_subagent_call(i)
    \/ \E i \in 1..Len(co) : _execute_subagent_return(i)
    \/ gather

SpecSub == SubInit /\ [][SubNext]_vars

-----------------------------------------------------------------------------
(* cancel_subagent beside execute_parallel *)

\* batches of one subtask
CancelBatches ==
    { <<[subtask_id |-> SubtaskIds[1], agent_type |-> ty, dependencies |-> {}]>> :
        ty \in AgentTypes }

CancelInit ==
    /\ pc = "idle"
    /\ description = <<>>
    /\ agents = InitialAgents
    /\ verifier_id \in VerifierIds
    /\ task = NewTaskState
    /\ current_task = FALSE
    /\ completed_tasks = <<>>
    /\ failed_tasks = <<>>
    /\ escalated_tasks = <<>>
    /\ request = None
    /\ run_result = None
    /\ workerCalls = 0
    /\ verifyCalls = 0
    /\ executeCalls = 0
    /\ trace = <<>>
    /\ sub_pc = "start"
    /\ configs \in CancelBatches
    /\ execution_plan = <<>>
    /\ wave = 0
    /\ co = <<>>
    /\ all_results = <<>>
    /\ active_subagents = <<>>
    /\ cancel_log = <<>>
    /\ ctx = NoContexts
    /\ ag = NoAgentCall

\* a caller cancels a subtask of the batch, or an id the manager never saw
CancelNext ==
    \/ SubNext
    \/ \E id \in {configs[i].subtask_id : i \in 1..Len(configs)} \cup {"Z"} :
          cancel_subagent(id)

SpecCancel == CancelInit /\ [][CancelNext]_vars

-----------------------------------------------------------------------------
(* two batches on one SubagentManager *)

\* the trace entry that separates the calls of two batches
NewBatch == [call |-> "batch", kind |-> "new", subtask |-> "-"]

\* after execute_parallel has returned, the caller submits a second batch to
\* the same manager; self._active_subagents is the manager's, not the call's
second_batch ==
    /\ sub_pc = "done"
    /\ \A q \in 1..Len(trace) : trace[q] # NewBatch
    /\ sub_pc' = "start"
    /\ configs' \in CancelBatches
    /\ execution_plan' = <<>>
    /\ wave' = 0
    /\ co' = <<>>
    /\ all_results' = <<>>
    /\ trace' = Append(trace, NewBatch)
    /\ UNCHANGED <<Orchestrator, ag, ctx, cancel_log, workerCalls, active_subagents>>

BatchesNext ==
    \/ SubNext
    \/ second_batch

SpecBatches == CancelInit /\ [][BatchesNext]_vars

-----------------------------------------------------------------------------
(* the context objects handed to the workers of a batch of two subtasks *)

\* the dict objects that can be a config's context_partition, and the
\* objects that can be a value inside a subtask's context
TopRefs == {"t1", "t2"}
NestedRefs == {"n1", "n2"}
Workers == 1..2

ContextInit ==
    /\ pc = "idle"
    /\ description = <<>>
    /\ agents = InitialAgents
    /\ verifier_id = <<"verifier", "independent">>
    /\ task = NewTaskState
    /\ current_task = FALSE
    /\ completed_tasks = <<>>
    /\ failed_tasks = <<>>
    /\ escalated_tasks = <<>>
    /\ request = None
    /\ run_result = None
    /\ workerCalls = 0
    /\ verifyCalls = 0
    /\ executeCalls = 0
    /\ trace = <<>>
    /\ sub_pc = "idle"
    /\ configs = <<>>
    /\ execution_plan = <<>>
    /\ wave = 0
    /\ co = <<>>
    /\ all_results = <<>>
    /\ active_subagents = <<>>
    /\ cancel_log = <<>>
    /\ ag = NoAgentCall
    /\ \E nested \in [Workers -> NestedRefs] :
          ctx = [pc |-> "new", top |-> <<>>, nested |-> nested,
                 heap |-> [r \in TopRefs \cup NestedRefs |-> {}],
                 seen |-> [i \in Workers |-> {}]]

Rest == <<Orchestrator, workerCalls, trace, sub_pc, configs, execution_plan, wave, co,
          all_results, active_subagents, cancel_log, ag>>

\* coordinate_parallel: _partition_context_for_subagent builds a new dict for
\* each subtask and spreads subtask.context into it, values by reference
_partition_context_for_subagent ==
    /\ ctx.pc = "new"
    /\ ctx' = [ctx EXCEPT !.pc = "handed", !.top = <<"t1", "t2">>]
    /\ UNCHANGED Rest

\* execute_parallel called with the caller's own configs, whose
\* context_partition objects are whichever the caller put there
submit_configs ==
    /\ ctx.pc = "new"
    /\ \E top \in [Workers -> TopRefs] : ctx' = [ctx EXCEPT !.pc = "handed", !.top = top]
    /\ UNCHANGED Rest

\* the objects reachable from the context _execute_subagent passes to
\* agent.execute: config.context_partition itself, and the values in it
Reachable(i) == {ctx.top[i], ctx.nested[i]}

\* the worker of subtask i changes an object of the context it received
worker_writes(i) ==
    /\ ctx.pc = "handed"
    /\ \E r \in Reachable(i) : ctx' = [ctx EXCEPT !.heap[r] = @ \cup {i}]
    /\ UNCHANGED Rest

\* the worker of subtask i reads the context it received
worker_reads(i) ==
    /\ ctx.pc = "handed"
    /\ ctx' = [ctx EXCEPT !.seen[i] = @ \cup UNION {ctx.heap[r] : r \in Reachable(i)}]
    /\ UNCHANGED Rest

ContextNext ==
    \/ _partition_context_for_subagent
    \/ submit_configs
    \/ \E i \in Workers : worker_writes(i)
    \/ \E i \in Workers : worker_reads(i)

SpecContext == ContextInit /\ [][ContextNext]_vars

-----------------------------------------------------------------------------
(* monitor_progress, collect_outputs, wait_for_all *)

\* monitor_progress(subtask_ids): the tracked status, Created for an id not tracked
monitor_progress(tracking, subtask_ids) ==
    [id \in Range(subtask_ids) |->
        IF id \in DOMAIN tracking THEN tracking[id].status ELSE CREATED]

RECURSIVE collect_outputs(_, _)
\* collect_outputs(subtask_ids): the results of the tracked ids that have one
collect_outputs(tracking, subtask_ids) ==
    IF subtask_ids = <<>> THEN <<>>
    ELSE (IF Head(subtask_ids) \in DOMAIN tracking /\ tracking[Head(subtask_ids)].result # None
          THEN <<tracking[Head(subtask_ids)].result[1]>>
          ELSE <<>>) \o collect_outputs(tracking, Tail(subtask_ids))

\* the statuses wait_for_all takes for done
DoneForWait == {COMPLETED, FAILED, CANCELLED}

\* how a call of wait_for_all(subtask_ids) ends if it ends on the poll made
\* in this state: with the collected outputs when every status is done, with
\* TimeoutError otherwise
wait_for_all(tracking, subtask_ids) ==
    IF \A id \in Range(subtask_ids) : monitor_progress(tracking, subtask_ids)[id] \in DoneForWait
    THEN [raised |-> FALSE, results |-> collect_outputs(tracking, subtask_ids)]
    ELSE [raised |-> TRUE, results |-> <<>>]

\* the id lists asked about: ids of the batch and an id the manager never saw
AskedIds ==
    LET ids == {configs[i].subtask_id : i \in 1..Len(configs)} \cup {"Z"}
    IN  UNION { [1..n -> ids] : n \in 1..2 }

-----------------------------------------------------------------------------
(* Properties of execute_parallel() *)

\* C3 (as claimed): a result of execute_parallel is Completed only if the
\* verifier was asked about that subtask's claimed output and passed it
C3_SubtaskCompletedOnlyIfVerified ==
    \A k \in 1..Len(all_results) :
        all_results[k].status = COMPLETED =>
            \E j \in 1..Len(trace) :
                /\ trace[j].call = "verify"
                /\ trace[j].kind = "pass"
                /\ trace[j].subtask = all_results[k].subtask_id

\* the wave of the execution plan that holds a subtask
WaveOf(id) ==
    CHOOSE w \in 1..Len(execution_plan) :
        id \in {execution_plan[w][i].subtask_id : i \in 1..Len(execution_plan[w])}

\* trace entries at which a subtask's coroutine starts, and at which it settles
Starts(e) == e.call = "start" \/ e.kind = "no_agent"
Settles(e) == e.call = "execute"

\* C16: the waves run are those of _resolve_dependencies; a subtask starts
\* only after every subtask of every earlier wave has settled; within the
\* wave being gathered any subtask not yet started can start, whatever its
\* siblings are doing
C16_WavesInOrder ==
    /\ sub_pc \in {"gather", "done"} => execution_plan = _resolve_dependencies(configs)
    /\ \A q \in 1..Len(trace) :
          Starts(trace[q]) =>
             \A v \in 1..(WaveOf(trace[q].subtask) - 1) :
                \A k \in 1..Len(execution_plan[v]) :
                   \E p \in 1..(q - 1) :
                      /\ Settles(trace[p])
                      /\ trace[p].subtask = execution_plan[v][k].subtask_id
    /\ sub_pc = "gather" =>
          \A i \in 1..Len(co) : co[i].state = "created" => ENABLED _execute_subagent_call(i)

C16_Witness ==
    /\ sub_pc = "gather"
    /\ wave = 2
    /\ Len(execution_plan[1]) = 2
    /\ co[1].state = "awaiting"
    /\ trace[1].call = "start"
    /\ trace[2].call = "start"

\* the config of the batch with a subtask id
ConfigOf(id) == CHOOSE c \in Range(configs) : c.subtask_id = id

\* how a subtask's coroutine settled, by the trace
SettledAs(id) ==
    {trace[p].kind : p \in {q \in 1..Len(trace) : Settles(trace[q]) /\ trace[q].subtask = id}}

\* the result that follows from a subtask's own config and own outcome
OwnResult(c, kind) ==
    CASE kind = "return" ->
            SubagentResult(c, get_agent(c.agent_type)[1].agent_id, COMPLETED, "")
      [] kind = "timeout" -> SubagentResult(c, "unknown", FAILED, "Timeout")
      [] kind = "raise" -> SubagentResult(c, "unknown", FAILED, "error")
      [] kind = "no_agent" -> SubagentResult(c, "unknown", FAILED, "no create_agent")

\* C17: subtasks A, B without dependencies and C depending on both run as
\* [[A, B], [C]]; every subtask of the batch is executed, and its result
\* follows from its own config and its own worker's outcome alone, whatever
\* became of its dependencies
C17_DependencyMeansRan ==
    /\ \A b \in CoordinationBatches :
          _resolve_dependencies(b) = << <<b[1], b[2]>>, <<b[3]>> >>
    /\ \A k \in 1..Len(all_results) :
          LET id == all_results[k].subtask_id
          IN  /\ Cardinality(SettledAs(id)) = 1
              /\ \A kind \in SettledAs(id) :
                    /\ all_results[k] = OwnResult(ConfigOf(id), kind)
                    /\ kind = "no_agent" <=> get_agent(ConfigOf(id).agent_type) = None
    /\ sub_pc = "done" =>
          \A i \in 1..Len(configs) :
             \E k \in 1..Len(all_results) : all_results[k].subtask_id = configs[i].subtask_id

C17_Witness ==
    /\ sub_pc = "done"
    /\ Len(execution_plan) = 2
    /\ Len(execution_plan[1]) = 2
    /\ all_results[1].status = FAILED
    /\ SettledAs(all_results[2].subtask_id) = {"timeout"}
    /\ all_results[3].status = COMPLETED

\* a step of execute_parallel or of one of its coroutines
Progress ==
    \/ execute_parallel
    \/ \E i \in 1..Len(co) : _execute_subagent_call(i)
    \/ \E i \in 1..Len(co) : _execute_subagent_return(i)
    \/ gather

\* C18: execute_parallel never stops short of its return; it returns one
\* result per config, with that config's subtask_id and agent_type; a result
\* is Failed exactly when its own worker raised, timed out or could not be
\* obtained, and Completed otherwise
C18_OneResultPerConfig ==
    /\ sub_pc # "done" => ENABLED Progress
    /\ sub_pc = "done" =>
          /\ Len(all_results) = Len(configs)
          /\ \A i \in 1..Len(configs) :
                Cardinality({k \in 1..Len(all_results) :
                               /\ all_results[k].subtask_id = configs[i].subtask_id
                               /\ all_results[k].agent_type = configs[i].agent_type}) = 1
    /\ \A k \in 1..Len(all_results) :
          /\ all_results[k].status \in {COMPLETED, FAILED}
          /\ all_results[k].status = FAILED <=>
                SettledAs(all_results[k].subtask_id) \subseteq {"raise", "timeout", "no_agent"}

C18_Witness ==
    /\ sub_pc = "done"
    /\ Len(all_results) = 3
    /\ SettledAs(all_results[1].subtask_id) = {"raise"}
    /\ SettledAs(all_results[2].subtask_id) = {"no_agent"}
    /\ all_results[3].status = COMPLETED

\* the trace entries of a subtask, in order
EventsOf(id) == SelectSeq(trace, LAMBDA e : e.subtask = id)

\* C19: a subtask whose worker timed out gets a Failed result with the
\* timeout error and its worker is heard of no more; a subtask whose worker
\* returned gets a Completed result; a coroutine awaiting its worker can
\* always settle, and a wave all of whose coroutines settled can be gathered
C19_TimeoutIsolation ==
    /\ \A k \in 1..Len(all_results) :
          LET r == all_results[k]
          IN  /\ SettledAs(r.subtask_id) = {"timeout"} =>
                    /\ r.status = FAILED
                    /\ r.error = "Timeout"
                    /\ Last(EventsOf(r.subtask_id)).kind = "timeout"
                    /\ Len(EventsOf(r.subtask_id)) = 2
              /\ SettledAs(r.subtask_id) = {"return"} => r.status = COMPLETED
    /\ sub_pc = "gather" =>
          /\ \A i \in 1..Len(co) :
                co[i].state = "awaiting" => ENABLED _execute_subagent_return(i)
          /\ (\A i \in 1..Len(co) : co[i].state = "done") => ENABLED gather

C19_Witness ==
    /\ sub_pc = "done"
    /\ Len(execution_plan[1]) = 2
    /\ Len(trace) >= 4
    /\ trace[3].kind = "timeout"
    /\ trace[4].kind = "return"
    /\ all_results[1].error = "Timeout"
    /\ all_results[2].status = COMPLETED

\* C20 (as claimed): a call of cancel_subagent that finds the subtask Created
\* or Running leaves it Cancelled; a call that finds it Completed, Failed or
\* Cancelled, or not tracked, leaves it as found and returns False
C20_CancelOnlyBeforeTerminal ==
    \A n \in 1..Len(cancel_log) :
        LET call == cancel_log[n]
        IN  /\ call.found \in {CREATED, RUNNING} => call.left = CANCELLED
            /\ call.found \in {COMPLETED, FAILED, CANCELLED, "untracked"} =>
                  /\ call.left = call.found
                  /\ ~call.returned

\* C36 (as claimed): once a tracked subtask is Cancelled no later step, a new
\* launch of its id apart, changes its tracking entry: an execution of the
\* subtask that starts or finishes afterwards neither sets Running or
\* Completed nor attaches a result
C36_CancelledIsTerminal ==
    [][ ~launch =>
          \A id \in DOMAIN active_subagents :
             active_subagents[id].status = CANCELLED =>
                /\ id \in DOMAIN active_subagents'
                /\ active_subagents'[id] = active_subagents[id] ]_vars

\* the subtask was launched and its execution has ended, or it is Cancelled
LaunchedAndEnded(id) ==
    /\ id \in DOMAIN active_subagents
    /\ \/ active_subagents[id].status = CANCELLED
       \/ \E q \in 1..Len(trace) : Settles(trace[q]) /\ trace[q].subtask = id

\* C37 (as claimed): when every asked subtask was launched and its execution
\* has ended by success, exception or timeout, or it is Cancelled, a call of
\* wait_for_all for them returns without raising the batch timeout; the
\* tracking entries of such subtasks no longer change by themselves, so the
\* call ends as its poll of this state decides
C37_WaitReturnsOnceAllEnded ==
    \A ids \in AskedIds :
        (\A i \in 1..Len(ids) : LaunchedAndEnded(ids[i])) =>
            ~wait_for_all(active_subagents, ids).raised

\* C21 (as claimed): a call of wait_for_all that returns does so with every
\* asked id tracked in a terminal status and with a result for every asked id
C21_WaitReturnsEveryId ==
    \A ids \in AskedIds :
        LET ended == wait_for_all(active_subagents, ids)
        IN  ~ended.raised =>
               \A i \in 1..Len(ids) :
                  /\ TrackedStatus(active_subagents, ids[i]) \in {COMPLETED, FAILED, CANCELLED}
                  /\ \E k \in 1..Len(ended.results) : ended.results[k].subtask_id = ids[i]

\* C22 (as claimed): once the coroutine of a launched subtask has ended,
\* monitor_progress reports for it the status of its SubagentResult
C22_ReportedStatusIsResultStatus ==
    sub_pc = "gather" =>
        \A i \in 1..Len(co) :
            LET id == execution_plan[wave][i].subtask_id
            IN  (co[i].state = "done" /\ id \in DOMAIN active_subagents) =>
                   monitor_progress(active_subagents, <<id>>)[id] = co[i].result[1].status

\* the trace entries of the second batch, when it has begun
SecondBatchTrace ==
    LET m == CHOOSE q \in 1..Len(trace) : trace[q] = NewBatch
    IN  SubSeq(trace, m + 1, Len(trace))

\* C23 (as claimed): in a second batch that uses the subtask ids of the
\* first, the manager reports Created for a subtask until that batch starts
\* it and no result for it until that batch has settled it
C23_NoTableOutlivesACall ==
    (\E q \in 1..Len(trace) : trace[q] = NewBatch) =>
        \A i \in 1..Len(configs) :
            LET id == configs[i].subtask_id
                mine == SelectSeq(SecondBatchTrace, LAMBDA e : e.subtask = id)
            IN  /\ mine = <<>> => monitor_progress(active_subagents, <<id>>)[id] = CREATED
                /\ (\A q \in 1..Len(mine) : ~Settles(mine[q])) =>
                      collect_outputs(active_subagents, <<id>>) = <<>>

\* C24 (as claimed): what a worker finds in the context it received was
\* written there by no other worker of the batch
C24_ContextNotShared ==
    ctx.pc = "handed" => \A i \in Workers : ctx.seen[i] \subseteq {i}

-----------------------------------------------------------------------------
(* AgentRegistry on its own *)

\* most calls made on the registry in one execution
MaxRegistryCalls == 3

\* names under which agents are registered: two defaults and a new one
RegisteredNames == {"general", "frontend", "security"}

\* agent instances a caller can construct: agent_id ends in a fresh uuid
NewAgents ==
    { [name |-> n, agent_id |-> <<"agent", n, k>>] : n \in RegisteredNames, k \in 1..2 }

\* category strings asked for: mapped ones, a registered new name, an unknown one
Categories == {"frontend", "general", "security", "other"}

RegistryInit ==
    /\ pc = "idle"
    /\ description = <<>>
    /\ agents = InitialAgents
    /\ verifier_id = <<"verifier", "independent">>
    /\ task = NewTaskState
    /\ current_task = FALSE
    /\ completed_tasks = <<>>
    /\ failed_tasks = <<>>
    /\ escalated_tasks = <<>>
    /\ request = None
    /\ run_result = None
    /\ workerCalls = 0
    /\ verifyCalls = 0
    /\ executeCalls = 0
    /\ trace = <<>>
    /\ SubIdle

Others ==
    <<pc, description, verifier_id, task, current_task, completed_tasks, failed_tasks,
      escalated_tasks, request, run_result, workerCalls, verifyCalls, executeCalls, Manager>>

\* AgentRegistry.register(agent)
register(agent) ==
    /\ Len(trace) < MaxRegistryCalls
    /\ agents' = Put(agents, agent.name, agent)
    /\ trace' = Append(trace, [call |-> "register", category |-> agent.name,
                               returned |-> None])
    /\ UNCHANGED Others

\* a call of AgentRegistry.get_agent_for_category(category), with what it returned
lookup_category(category) ==
    /\ Len(trace) < MaxRegistryCalls
    /\ trace' = Append(trace, [call |-> "get_agent_for_category", category |-> category,
                               returned |-> get_agent_for_category(category)])
    /\ UNCHANGED <<agents, Others>>

RegistryNext ==
    \/ \E agent \in NewAgents : register(agent)
    \/ \E category \in Categories : lookup_category(category)

SpecRegistry == RegistryInit /\ [][RegistryNext]_vars

\* the call just made on the registry is this lookup
JustLookedUp(category) ==
    /\ trace # <<>>
    /\ Last(trace).call = "get_agent_for_category"
    /\ Last(trace).category = category

\* C25: after any registrations a lookup by category returns an agent: for
\* a mapped category the agent now registered under the mapped name, for any
\* other category the agent now registered as "general"
C25_CategoryLookupNeverNone ==
    \A category \in Categories :
        JustLookedUp(category) =>
            /\ Last(trace).returned # None
            /\ Last(trace).returned =
                  Some(agents[IF category \in DefaultAgents THEN category ELSE "general"])

C25_Witness ==
    /\ JustLookedUp("other")
    /\ Len(trace) = 3
    /\ trace[1].call = "register" /\ trace[1].category = "general"
    /\ trace[2].call = "register" /\ trace[2].category = "general"
    /\ Last(trace).returned = Some(agents["general"])
    /\ agents["general"] # InitialAgents["general"]

\* C26 (as claimed): once an agent is registered under a name that is not a
\* default, a lookup of that name as a category returns that agent
C26_RegistrationExtendsMapping ==
    \A category \in Categories \ DefaultAgents :
        (JustLookedUp(category) /\ category \in DOMAIN agents) =>
            Last(trace).returned = Some(agents[category])

-----------------------------------------------------------------------------
(* BaseAgent on its own: self-verification and iterate_until_passing *)

\* largest max_attempts handed to iterate_until_passing
MaxIterations == 3

\* what execute can return: a falsy value, a value without a task_output,
\* or a dict with a task_output
ExecuteResults ==
    {[kind |-> "empty", outputs |-> "none", completion_criteria |-> FALSE],
     [kind |-> "plain", outputs |-> "none", completion_criteria |-> FALSE]}
    \cup [kind : {"task_output"}, outputs : {"none", "file", "file_without_path"},
          completion_criteria : BOOLEAN]

\* self_review(result): the issues it finds
_issues(result) ==
    IF result.kind = "empty" THEN {"Result is empty or None"}
    ELSE IF result.kind # "task_output" THEN {}
    ELSE (IF result.outputs = "none" THEN {"No outputs reported"} ELSE {})
         \cup (IF ~result.completion_criteria THEN {"No completion criteria defined"} ELSE {})
         \cup (IF result.outputs = "file_without_path" THEN {"File output missing path"}
               ELSE {})

self_review(result) == [passed |-> _issues(result) = {}, issues |-> _issues(result)]

\* a self-verification that answers
SelfVerificationAnswered(name, method) ==
    [raised |-> None, returned |-> Some([passed |-> TRUE])]

\* verify_build, verify_tests, verify_functionality: raise SelfAttestationError
SelfVerification(name, method) ==
    [raised |-> Some([error |-> "SelfAttestationError", agent_name |-> name,
                      method |-> method]),
     returned |-> None]

AgentInit ==
    /\ pc = "idle"
    /\ description = <<>>
    /\ agents = InitialAgents
    /\ verifier_id = <<"verifier", "independent">>
    /\ task = NewTaskState
    /\ current_task = FALSE
    /\ completed_tasks = <<>>
    /\ failed_tasks = <<>>
    /\ escalated_tasks = <<>>
    /\ request = None
    /\ run_result = None
    /\ workerCalls = 0
    /\ verifyCalls = 0
    /\ executeCalls = 0
    /\ trace = <<>>
    /\ sub_pc = "idle"
    /\ configs = <<>>
    /\ execution_plan = <<>>
    /\ wave = 0
    /\ co = <<>>
    /\ all_results = <<>>
    /\ active_subagents = <<>>
    /\ cancel_log = <<>>
    /\ ctx = NoContexts
    /\ \E name \in DefaultAgents : ag = [NoAgentCall EXCEPT !.pc = "idle", !.name = name]

NotAgent ==
    <<Orchestrator, workerCalls, trace, sub_pc, configs, execution_plan, wave, co,
      all_results, active_subagents, cancel_log, ctx>>

\* a call of one of the three self-verification methods, in whatever state
\* the agent is; verify_functionality takes a result
self_verify(method) ==
    /\ ag.pc # "none"
    /\ ag' = [ag EXCEPT !.attested = Some(SelfVerification(ag.name, method))]
    /\ UNCHANGED NotAgent

verify_build == self_verify("verify_build")
verify_tests == self_verify("verify_tests")
verify_functionality == \E result \in ExecuteResults : self_verify("verify_functionality")

\* iterate_until_passing(task_description, context, max_attempts)
iterate_until_passing ==
    /\ ag.pc = "idle"
    /\ \E n \in 0..MaxIterations :
          ag' = [ag EXCEPT !.pc = "loop", !.attempt = 0, !.max_attempts = n,
                           !.last_result = None]
    /\ UNCHANGED NotAgent

\* a loop test that allows one attempt more
IterateOnceMore(attempt, max_attempts) ==
    attempt <= max_attempts

\* while attempt < max_attempts
IterateAgain(attempt, max_attempts) ==
    attempt < max_attempts

\* the loop test: the next attempt begins, or the call returns (last_result, False)
iterate_loop ==
    /\ ag.pc = "loop"
    /\ IF IterateAgain(ag.attempt, ag.max_attempts)
       THEN ag' = [ag EXCEPT !.pc = "executing", !.attempt = @ + 1]
       ELSE ag' = [ag EXCEPT !.pc = "returned",
                             !.returned = Some([result |-> ag.last_result,
                                                success |-> FALSE])]
    /\ UNCHANGED NotAgent

\* the awaited self.execute ends: it raised, or it returned a result that
\* self_review passes or not
iterate_attempt ==
    /\ ag.pc = "executing"
    /\ \/ ag' = [ag EXCEPT !.pc = "loop",
                            !.executed = Append(@, [raised |-> TRUE, result |-> None])]
       \/ \E result \in ExecuteResults :
             IF self_review(result).passed
             THEN ag' = [ag EXCEPT !.pc = "returned",
                                   !.last_result = Some(result),
                                   !.executed = Append(@, [raised |-> FALSE,
                                                           result |-> Some(result)]),
                                   !.returned = Some([result |-> Some(result),
                                                      success |-> TRUE])]
             ELSE ag' = [ag EXCEPT !.pc = "loop",
                                   !.last_result = Some(result),
                                   !.executed = Append(@, [raised |-> FALSE,
                                                           result |-> Some(result)])]
    /\ UNCHANGED NotAgent

AgentNext ==
    \/ verify_build
    \/ verify_tests
    \/ verify_functionality
    \/ iterate_until_passing
    \/ iterate_loop
    \/ iterate_attempt

SpecAgent == AgentInit /\ [][AgentNext]_vars

\* C27: a self-verification call made on an agent, in any state of the
\* agent, has raised SelfAttestationError naming the agent and the method,
\* and has returned nothing
C27_SelfVerificationRaises ==
    ag.attested # None =>
        /\ ag.attested[1].returned = None
        /\ ag.attested[1].raised # None
        /\ ag.attested[1].raised[1].error = "SelfAttestationError"
        /\ ag.attested[1].raised[1].agent_name = ag.name
        /\ ag.attested[1].raised[1].method \in
              {"verify_build", "verify_tests", "verify_functionality"}

C27_Witness ==
    /\ ag.pc = "executing"
    /\ ag.attempt = 2
    /\ ag.attested # None
    /\ ag.attested[1].raised[1].method = "verify_functionality"

\* the executions of the call that returned a result self_review passes
Passing == {k \in 1..Len(ag.executed) :
               ~ag.executed[k].raised /\ self_review(ag.executed[k].result[1]).passed}

\* the result of the last execution that returned one, None if there is none
LastReturned ==
    LET rs == SelectSeq(ag.executed, LAMBDA e : ~e.raised)
    IN  IF rs = <<>> THEN None ELSE Last(rs).result

\* C28: execute is called at most max_attempts times, a raising call
\* counting as one; the call returns (result, True) right after the first
\* execution that passes self-review, and (last result, False) after exactly
\* max_attempts executions none of which passes; it ends in no other way
C28_IterateAtMostN ==
    /\ ag.pc \in {"none", "idle", "loop", "executing", "returned"}
    /\ Len(ag.executed) <= ag.max_attempts
    /\ ag.pc \in {"loop", "returned"} => ag.attempt = Len(ag.executed)
    /\ ag.pc # "returned" => Passing = {}
    /\ ag.pc = "returned" =>
          IF ag.returned[1].success
          THEN /\ Passing = {Len(ag.executed)}
               /\ ag.returned[1].result = Last(ag.executed).result
          ELSE /\ Passing = {}
               /\ Len(ag.executed) = ag.max_attempts
               /\ ag.returned[1].result = LastReturned

C28_Witness ==
    /\ ag.pc = "returned"
    /\ ag.max_attempts = 3
    /\ Len(ag.executed) = 3
    /\ ag.executed[1].raised
    /\ ~ag.executed[2].raised
    /\ ag.executed[3].raised
    /\ ~ag.returned[1].success
    /\ ag.returned[1].result = ag.executed[2].result

-----------------------------------------------------------------------------
(* _resolve_dependencies on its own *)

\* longest list handed to _resolve_dependencies
MaxWaveTasks == 3

WaveIds == {"A", "B", "C"}

\* dependency lists: any ids of the universe, or an id no subtask has
WaveDependencies == (SUBSET WaveIds) \cup {{"Z"}}

WaveConfigs ==
    [subtask_id : WaveIds, agent_type : {"general"}, dependencies : WaveDependencies]

WaveInputs == UNION { [1..n -> WaveConfigs] : n \in 0..MaxWaveTasks }

WavesInit ==
    /\ pc = "idle"
    /\ description = <<>>
    /\ agents = InitialAgents
    /\ verifier_id = <<"verifier", "independent">>
    /\ task = NewTaskState
    /\ current_task = FALSE
    /\ completed_tasks = <<>>
    /\ failed_tasks = <<>>
    /\ escalated_tasks = <<>>
    /\ request = None
    /\ run_result = None
    /\ workerCalls = 0
    /\ verifyCalls = 0
    /\ executeCalls = 0
    /\ trace = <<>>
    /\ sub_pc = "resolve"
    /\ configs \in WaveInputs
    /\ execution_plan = <<>>
    /\ wave = 0
    /\ co = <<>>
    /\ all_results = <<>>
    /\ active_subagents = <<>>
    /\ cancel_log = <<>>
    /\ ctx = NoContexts
    /\ ag = NoAgentCall

\* a call of _resolve_dependencies(configs)
resolve_waves ==
    /\ sub_pc = "resolve"
    /\ execution_plan' = _resolve_dependencies(configs)
    /\ sub_pc' = "resolved"
    /\ UNCHANGED <<Orchestrator, ag, ctx, cancel_log, workerCalls, trace, configs, wave, co, all_results,
                   active_subagents>>

WavesNext == resolve_waves

SpecWaves == WavesInit /\ [][WavesNext]_vars

-----------------------------------------------------------------------------
(* Properties of _resolve_dependencies *)

RECURSIVE Flatten(_)
Flatten(ws) == IF ws = <<>> THEN <<>> ELSE Head(ws) \o Flatten(Tail(ws))

Count(x, s) == Cardinality({i \in 1..Len(s) : s[i] = x})

\* the waves hold every config of the input as often as the input does
Partitions(ws, cs) ==
    /\ Len(Flatten(ws)) = Len(cs)
    /\ \A c \in Range(cs) \cup Range(Flatten(ws)) : Count(c, Flatten(ws)) = Count(c, cs)

IdsOf(s) == {s[i].subtask_id : i \in 1..Len(s)}

UniqueIds(cs) == \A i, j \in 1..Len(cs) : cs[i].subtask_id = cs[j].subtask_id => i = j

DependenciesPresent(cs) == \A i \in 1..Len(cs) : cs[i].dependencies \subseteq IdsOf(cs)

RECURSIVE DependsOn(_, _, _)
\* the ids reachable from the ids in from along at most n dependency edges
DependsOn(cs, from, n) ==
    IF n = 0 THEN from
    ELSE LET next == from \cup UNION {cs[i].dependencies : i \in {j \in 1..Len(cs) :
                                                             cs[j].subtask_id \in from}}
         IN  DependsOn(cs, next, n - 1)

Acyclic(cs) ==
    \A i \in 1..Len(cs) : cs[i].subtask_id \notin DependsOn(cs, cs[i].dependencies, Len(cs))

\* C13: for unique ids, present dependencies and no cycle, the waves hold
\* every config exactly once and every dependency of a subtask is in a
\* strictly earlier wave
C13_WavesRespectDependencies ==
    (sub_pc = "resolved" /\ UniqueIds(configs) /\ DependenciesPresent(configs)
                         /\ Acyclic(configs)) =>
        /\ Partitions(execution_plan, configs)
        /\ \A w \in 1..Len(execution_plan) : \A c \in Range(execution_plan[w]) :
              \A d \in c.dependencies :
                 \E v \in 1..(w - 1) : d \in IdsOf(execution_plan[v])

C13_Witness ==
    /\ sub_pc = "resolved"
    /\ UniqueIds(configs) /\ DependenciesPresent(configs) /\ Acyclic(configs)
    /\ Len(execution_plan) = 3
    /\ configs[1].dependencies # {}

\* the configs not in a wave before wave k, and the ids of those that are
RemainingAt(k) == Without(configs, Flatten(SubSeq(execution_plan, 1, k - 1)))
CompletedAt(k) == IdsOf(Flatten(SubSeq(execution_plan, 1, k - 1)))

\* no remaining subtask has all its dependencies completed when wave k is formed
BlockedAt(k) == Ready(RemainingAt(k), CompletedAt(k)) = <<>>

\* C14: the waves cover the input, and a wave formed when no remaining
\* subtask has its dependencies completed holds all remaining subtasks and is
\* the last wave
C14_BlockedSubtasksRunInLastWave ==
    sub_pc = "resolved" =>
        /\ Partitions(execution_plan, configs)
        /\ \A k \in 1..Len(execution_plan) :
              BlockedAt(k) => (execution_plan[k] = RemainingAt(k) /\ k = Len(execution_plan))

C14_Witness ==
    /\ sub_pc = "resolved"
    /\ Len(execution_plan) = 2
    /\ BlockedAt(2)
    /\ Len(execution_plan[2]) = 2
    /\ UniqueIds(configs) /\ DependenciesPresent(configs) /\ ~Acyclic(configs)

\* C15 (as claimed): for every input the waves are a non-empty sequence of
\* non-empty waves that partitions the input
C15_NonEmptyPartition ==
    sub_pc = "resolved" =>
        /\ execution_plan # <<>>
        /\ \A k \in 1..Len(execution_plan) : execution_plan[k] # <<>>
        /\ Partitions(execution_plan, configs)

\* C15 (amended): the waves partition the input and none is empty; there is
\* at least one wave unless the input is the empty list, for which there is none
C15_PartitionWithoutEmptyWaves ==
    sub_pc = "resolved" =>
        /\ execution_plan = <<>> <=> configs = <<>>
        /\ \A k \in 1..Len(execution_plan) : execution_plan[k] # <<>>
        /\ Partitions(execution_plan, configs)

C15_Witness ==
    /\ sub_pc = "resolved"
    /\ Len(configs) = 3
    /\ ~UniqueIds(configs)
    /\ Len(execution_plan) = 2

\* the wave of the plan that holds the subtask with this id
WaveOfId(id) == CHOOSE w \in 1..Len(execution_plan) : id \in IdsOf(execution_plan[w])

\* the latest wave that holds one of these ids
LatestWaveOf(ids) ==
    CHOOSE w \in {WaveOfId(d) : d \in ids} : \A d \in ids : WaveOfId(d) <= w

\* C35: for unique ids, present dependencies and no cycle, the first wave
\* holds exactly the subtasks without dependencies and a subtask with
\* dependencies is in the wave right after the latest wave of its dependencies
C35_EarliestPossibleWave ==
    (sub_pc = "resolved" /\ UniqueIds(configs) /\ DependenciesPresent(configs)
                         /\ Acyclic(configs) /\ configs # <<>>) =>
        /\ Range(execution_plan[1]) = {c \in Range(configs) : c.dependencies = {}}
        /\ \A w \in 1..Len(execution_plan) : \A c \in Range(execution_plan[w]) :
              c.dependencies # {} => w = LatestWaveOf(c.dependencies) + 1

\* a subtask whose two dependencies are in different waves
C35_Witness ==
    /\ sub_pc = "resolved"
    /\ UniqueIds(configs) /\ DependenciesPresent(configs) /\ Acyclic(configs)
    /\ Len(execution_plan) = 3
    /\ Cardinality(execution_plan[3][1].dependencies) = 2
    /\ WaveOfId("A") = 2

====
